---------------------------- MODULE Spec2Model ----------------------------
(***************************************************************************)
(* Model of the node-identity miner of cmd/cql/internal/idminer.go:        *)
(* nonceGen (one-shot mode), nonceLoop (continuous mode, "-loop") and the  *)
(* start-nonce partition both use.                                         *)
(*                                                                         *)
(* Three specifications share the variables:                               *)
(*   SpecPart  the start nonces as a pure function of cpuCount and of the  *)
(*             per-worker rand.Uint32() draw                               *)
(*   SpecGen   the goroutines of nonceGen  (FairSpecGen adds scheduling)   *)
(*   SpecLoop  the goroutines of nonceLoop (FairSpecLoop adds scheduling)  *)
(***************************************************************************)
EXTENDS Integers, Sequences, FiniteSets

(***************************************************************************)
(* Bounds of the model.                                                    *)
(***************************************************************************)
\* largest runtime.NumCPU() in the goroutine models
MaxCpu == 2
\* largest runtime.NumCPU() in the partition model
MaxCpuPart == 8
\* nonces a worker may try after its first one before it is no longer scheduled
MaxInc == 2
\* ticks of the one-second ticker the model follows
MaxTicks == 1
\* capacity of progressCh in the model (make(chan int, 100) in the source);
\* below MaxCpu, as 100 is below the CPU count of a large machine
ProgressCap == 1
\* width of a digest in the model, so difficulties range over 0..HashBits
HashBits == 2

(***************************************************************************)
(* uint64 arithmetic.  A uint64 is four base-2^16 digits, least            *)
(* significant first, so that every intermediate value fits the checker's  *)
(* integers while the 64-bit width and its wrap-around are exact.          *)
(***************************************************************************)
Base == 2^16

Zero64 == <<0, 0, 0, 0>>

\* math.MaxUint64
MaxUint64 == <<Base - 1, Base - 1, Base - 1, Base - 1>>

\* uint64(n) for a small non-negative int n
U64(n) == <<n % Base, (n \div Base) % Base, 0, 0>>

\* a + b in uint64 (wraps modulo 2^64)
Add64(a, b) ==
    LET s1 == a[1] + b[1]
        s2 == a[2] + b[2] + (s1 \div Base)
        s3 == a[3] + b[3] + (s2 \div Base)
        s4 == a[4] + b[4] + (s3 \div Base)
    IN  <<s1 % Base, s2 % Base, s3 % Base, s4 % Base>>

\* a * k in uint64 for a small int k (wraps modulo 2^64)
Mul64(a, k) ==
    LET p1 == a[1] * k
        p2 == a[2] * k + (p1 \div Base)
        p3 == a[3] * k + (p2 \div Base)
        p4 == a[4] * k + (p3 \div Base)
    IN  <<p1 % Base, p2 % Base, p3 % Base, p4 % Base>>

\* the carry out of a * k: TRUE iff the uint64 multiplication wraps
MulWraps64(a, k) ==
    LET p1 == a[1] * k
        p2 == a[2] * k + (p1 \div Base)
        p3 == a[3] * k + (p2 \div Base)
        p4 == a[4] * k + (p3 \div Base)
    IN  p4 \div Base > 0

\* a / k in uint64 for a small int k >= 1 (long division, high digit first)
Div64(a, k) ==
    LET q4 == a[4] \div k
        r4 == a[4] % k
        q3 == (r4 * Base + a[3]) \div k
        r3 == (r4 * Base + a[3]) % k
        q2 == (r3 * Base + a[2]) \div k
        r2 == (r3 * Base + a[2]) % k
        q1 == (r2 * Base + a[1]) \div k
    IN  <<q1, q2, q3, q4>>

\* a < b on uint64
Less64(a, b) ==
    \/ a[4] < b[4]
    \/ a[4] = b[4] /\ a[3] < b[3]
    \/ a[4] = b[4] /\ a[3] = b[3] /\ a[2] < b[2]
    \/ a[4] = b[4] /\ a[3] = b[3] /\ a[2] = b[2] /\ a[1] < b[1]

\* uint64(1 << shift) for shift in 0..63
Shl1(shift) ==
    [d \in 1..4 |-> IF d = (shift \div 16) + 1 THEN 2^(shift % 16) ELSE 0]

(***************************************************************************)
(* rand.Uint32(): the draws the model follows, as uint64 values: 0 and     *)
(* 2^32 - 1, the two ends of the 32-bit range.                             *)
(***************************************************************************)
RandUint32 == { <<0, 0, 0, 0>>, <<Base - 1, Base - 1, 0, 0>> }

(***************************************************************************)
(* mine.Uint256: four uint64 limbs A, B, C, D.                             *)
(***************************************************************************)
Uint256(a, b, c, d) == [A |-> a, B |-> b, C |-> c, D |-> d]

\* the zero value mine.Uint256{}
ZeroUint256 == Uint256(Zero64, Zero64, Zero64, Zero64)

\* the workers' indices, 0 .. cpuCount-1
Workers(n) == 0..(n - 1)

(***************************************************************************)
(* The start nonce of nonceGen's worker i: one limb gets 2^shift + rand.   *)
(***************************************************************************)
\* the width of the nonce in bits
NonceBits == 256

GenStep(n) == NonceBits \div n

\* as GenStartBit, counting the workers from 1
GenStartBitFromOne(i, n) == (i + 1) * GenStep(n)

GenStartBit(i, n) == i * GenStep(n)

GenPosition(i, n) == GenStartBit(i, n) \div 64

GenShift(i, n) == GenStartBit(i, n) % 64

GenStart(i, n, r) ==
    LET position == GenPosition(i, n)
        limb == Add64(Shl1(GenShift(i, n)), r)
    IN  IF position = 0 THEN Uint256(limb, Zero64, Zero64, Zero64)
        ELSE IF position = 1 THEN Uint256(Zero64, limb, Zero64, Zero64)
        ELSE IF position = 2 THEN Uint256(Zero64, Zero64, limb, Zero64)
        ELSE IF position = 3 THEN Uint256(Zero64, Zero64, Zero64, limb)
        ELSE ZeroUint256

(***************************************************************************)
(* The start nonce of nonceLoop's worker i: D = step*i + rand.             *)
(***************************************************************************)
\* as LoopStep, with math.MaxUint32 for math.MaxUint64
LoopStep32(n) == Div64(<<Base - 1, Base - 1, 0, 0>>, n)

LoopStep(n) == Div64(MaxUint64, n)

LoopStartD(i, n, r) == Add64(Mul64(LoopStep(n), i), r)

LoopStart(i, n, r) == Uint256(Zero64, Zero64, Zero64, LoopStartD(i, n, r))

(***************************************************************************)
(* The oracles of pow/cpuminer.  A digest is a HashBits-bit number and its *)
(* difficulty the number of its leading zero bits; HashBlock is a fixed    *)
(* deterministic function of the data and of every digit of the nonce      *)
(* (one more in limb D moves the digest by 7).                             *)
(***************************************************************************)
Digests == 0..(2^HashBits - 1)

\* the serialized public keys the model follows
PublicKeys == {0, 1}

Mix64(u) == u[1] + 2 * u[2] + 3 * u[3] + 4 * u[4]

HashBlock(data, n) ==
    (data + Mix64(n.A) + 3 * Mix64(n.B) + 5 * Mix64(n.C) + 7 * Mix64(n.D))
        % (2^HashBits)

Difficulty(h) ==
    CHOOSE d \in 0..HashBits :
        \/ h = 0 /\ d = HashBits
        \/ h # 0 /\ 2^(HashBits - d - 1) <= h /\ h < 2^(HashBits - d)

\* as Inc, without the carry out of limb D
IncNoCarry(n) == [n EXCEPT !.D = Add64(n.D, U64(1))]

\* Uint256.Inc: add 1, the carry running from limb D up to limb A
Inc(n) ==
    LET one == U64(1)
        d == Add64(n.D, one)
        c == Add64(n.C, one)
        b == Add64(n.B, one)
        a == Add64(n.A, one)
    IN  IF d # Zero64 THEN [n EXCEPT !.D = d]
        ELSE IF c # Zero64 THEN [n EXCEPT !.D = d, !.C = c]
        ELSE IF b # Zero64 THEN [n EXCEPT !.D = d, !.C = c, !.B = b]
        ELSE Uint256(a, b, c, d)

\* mine.NonceInfo and its zero value
NonceInfo(n, d, h) == [Nonce |-> n, Difficulty |-> d, Hash |-> h]

ZeroNonceInfo == NonceInfo(ZeroUint256, 0, 0)

(***************************************************************************)
(* State.                                                                  *)
(***************************************************************************)
VARIABLES
    loop,               \* the -loop flag
    difficulty,         \* the -difficulty flag: the target
    cpuCount,           \* runtime.NumCPU()
    publicKeyBytes,     \* publicKey.Serialize()
    wpc,                \* each worker goroutine's position
    start,              \* each worker's start nonce
    j,                  \* each worker's loop variable (i in ComputeBlockNonce)
    incs,               \* history: how many times each worker ran j.Inc()
    currentHash,        \* each worker's currentHash
    currentDifficulty,  \* each worker's currentDifficulty
    stopCh,             \* nonceGen: TRUE once stopCh is closed
    nonceCh,            \* nonceGen: the buffered results channel
    progressCh,         \* nonceGen: the buffered progress channel
    wg,                 \* nonceGen: the WaitGroup's counter
    ppc,                \* the progress printer's position
    count,              \* the printer's count
    current,            \* the printer's current
    mined,              \* the printer's mined: the sample it received last
    printed,            \* the "current difficulty" of the last line printed
    mpc,                \* the coordinator's position
    nonce,              \* nonceGen: the result the coordinator received
    stopChs,            \* nonceLoop: TRUE for each closed stopChs[i]
    bestNonce,          \* nonceLoop: each worker's bestNonce
    ci,                 \* nonceLoop: the coordinator's loop index i
    max,                \* nonceLoop: max
    collected,          \* history: the results nonceLoop received, in order
    sent,               \* history: the results enqueued on nonceCh, in order
    consumed,           \* history: the largest sample the printer received (or 0)
    afterStop,          \* history: what each worker did after close(stopCh)
    verdict             \* history: kms.IsIDPubNonceValid's answer, or "none"

inputVars == <<loop, difficulty, cpuCount, publicKeyBytes>>

workerVars == <<wpc, start, j, incs, currentHash, currentDifficulty>>

genVars == <<stopCh, nonceCh, progressCh, wg, nonce>>

printerVars == <<ppc, count, current, mined, printed>>

loopVars == <<stopChs, bestNonce, ci, max, collected>>

histVars == <<sent, consumed, afterStop, verdict>>

vars == <<inputVars, workerVars, genVars, printerVars, mpc, loopVars, histVars>>

\* the state of everything but the coordinator's position, for n workers of
\* which the workers ws are followed
InitOver(isLoop, n, ws) ==
    /\ loop = isLoop
    /\ cpuCount = n
    /\ wpc = [i \in ws |-> "start"]
    /\ start = [i \in ws |-> ZeroUint256]
    /\ j = [i \in ws |-> ZeroUint256]
    /\ incs = [i \in ws |-> 0]
    /\ currentHash = [i \in ws |-> 0]
    /\ currentDifficulty = [i \in ws |-> 0]
    /\ stopCh = FALSE
    /\ nonceCh = <<>>
    /\ progressCh = <<>>
    /\ wg = IF isLoop THEN 0 ELSE n + 1
    /\ ppc = IF isLoop THEN "none" ELSE "select"
    /\ count = 0
    /\ current = 0
    /\ mined = 0
    /\ printed = 0
    /\ nonce = ZeroNonceInfo
    /\ stopChs = [i \in ws |-> FALSE]
    /\ bestNonce = [i \in ws |-> ZeroNonceInfo]
    /\ ci = 0
    /\ max = ZeroNonceInfo
    /\ collected = <<>>
    /\ sent = <<>>
    /\ consumed = 0
    /\ afterStop = [i \in ws |-> [hashes |-> 0, samples |-> 0, results |-> 0]]
    /\ verdict = "none"

\* the same with all n workers followed
InitRest(isLoop, n) == InitOver(isLoop, n, Workers(n))

\* the state every specification of the search starts from: the workers are
\* spawned, the coordinator is at its first blocking statement
InitState(isLoop, n) ==
    /\ InitRest(isLoop, n)
    /\ mpc = IF isLoop THEN "signal" ELSE "recv"

(***************************************************************************)
(* nonceGen: the worker goroutines.                                        *)
(***************************************************************************)
\* lines 144-159: the start nonce, and j := start
GenWorkerStart(i) ==
    /\ ~loop
    /\ wpc[i] = "start"
    /\ \E r \in RandUint32 :
          /\ start' = [start EXCEPT ![i] = GenStart(i, cpuCount, r)]
          /\ j' = [j EXCEPT ![i] = GenStart(i, cpuCount, r)]
    /\ wpc' = [wpc EXCEPT ![i] = "select"]
    /\ UNCHANGED <<inputVars, incs, currentHash, currentDifficulty, genVars,
                   printerVars, mpc, loopVars, histVars>>

\* the select's case <-stopCh: return (and the deferred wg.Done())
GenWorkerStop(i) ==
    /\ wpc[i] = "select"
    /\ stopCh
    /\ wpc' = [wpc EXCEPT ![i] = "done"]
    /\ wg' = wg - 1
    /\ UNCHANGED <<inputVars, start, j, incs, currentHash, currentDifficulty,
                   stopCh, nonceCh, progressCh, nonce, printerVars, mpc,
                   loopVars, histVars>>

\* as GenWorkerHash, with the default taken whether or not stopCh is closed
GenWorkerHashNoPoll(i) ==
    /\ wpc[i] = "select"
    /\ incs[i] <= MaxInc
    /\ currentHash' = [currentHash EXCEPT ![i] = HashBlock(publicKeyBytes, j[i])]
    /\ currentDifficulty' =
          [currentDifficulty EXCEPT ![i] = Difficulty(HashBlock(publicKeyBytes, j[i]))]
    /\ wpc' = [wpc EXCEPT ![i] = "progress"]
    /\ afterStop' = [afterStop EXCEPT ![i].hashes = @ + (IF stopCh THEN 1 ELSE 0)]
    /\ UNCHANGED <<inputVars, start, j, incs, genVars, printerVars, mpc,
                   loopVars, sent, consumed, verdict>>

\* the select's default, taken only when stopCh is not closed: hash j
GenWorkerHash(i) ==
    /\ wpc[i] = "select"
    /\ ~stopCh
    /\ incs[i] <= MaxInc
    /\ currentHash' = [currentHash EXCEPT ![i] = HashBlock(publicKeyBytes, j[i])]
    /\ currentDifficulty' =
          [currentDifficulty EXCEPT ![i] = Difficulty(HashBlock(publicKeyBytes, j[i]))]
    /\ wpc' = [wpc EXCEPT ![i] = "progress"]
    /\ afterStop' = [afterStop EXCEPT ![i].hashes = @ + (IF stopCh THEN 1 ELSE 0)]
    /\ UNCHANGED <<inputVars, start, j, incs, genVars, printerVars, mpc,
                   loopVars, sent, consumed, verdict>>

\* progressCh <- currentDifficulty: blocks while the channel is full
ProgressSendReady == Len(progressCh) < ProgressCap

\* progressCh <- currentDifficulty, then the test of the target; below the
\* target the loop's post statement j.Inc() runs
GenWorkerProgress(i) ==
    /\ wpc[i] = "progress"
    /\ ProgressSendReady
    /\ progressCh' = Append(progressCh, currentDifficulty[i])
    /\ afterStop' = [afterStop EXCEPT ![i].samples = @ + (IF stopCh THEN 1 ELSE 0)]
    /\ IF currentDifficulty[i] >= difficulty
         THEN /\ wpc' = [wpc EXCEPT ![i] = "result"]
              /\ UNCHANGED <<j, incs>>
         ELSE /\ wpc' = [wpc EXCEPT ![i] = "select"]
              /\ j' = [j EXCEPT ![i] = Inc(j[i])]
              /\ incs' = [incs EXCEPT ![i] = @ + 1]
    /\ UNCHANGED <<inputVars, start, currentHash, currentDifficulty, stopCh,
                   nonceCh, wg, nonce, printerVars, mpc, loopVars, sent, consumed,
                   verdict>>

\* as GenWorkerNonce, with the loop variable of worker 0 for the worker's own
GenWorkerNonceShared(i) == NonceInfo(j[0], currentDifficulty[i], currentHash[i])

\* the NonceInfo a worker builds on success
GenWorkerNonce(i) == NonceInfo(j[i], currentDifficulty[i], currentHash[i])

\* as NonceSendReady, over a results channel with room for one result
NonceSendReadyOne == Len(nonceCh) < 1

\* nonceCh <- nonce blocks while the channel, made with room for cpuCount
\* results (line 134), is full
NonceSendReady == Len(nonceCh) < cpuCount

\* nonceCh <- nonce; return (and the deferred wg.Done())
GenWorkerResult(i) ==
    /\ wpc[i] = "result"
    /\ NonceSendReady
    /\ nonceCh' = Append(nonceCh, GenWorkerNonce(i))
    /\ sent' = Append(sent, [from |-> i, info |-> GenWorkerNonce(i)])
    /\ wpc' = [wpc EXCEPT ![i] = "done"]
    /\ wg' = wg - 1
    /\ afterStop' = [afterStop EXCEPT ![i].results = @ + (IF stopCh THEN 1 ELSE 0)]
    /\ UNCHANGED <<inputVars, start, j, incs, currentHash, currentDifficulty,
                   stopCh, progressCh, nonce, printerVars, mpc, loopVars,
                   consumed, verdict>>

(***************************************************************************)
(* nonceGen: the progress printer.  A select with several ready cases      *)
(* takes any of them.                                                      *)
(***************************************************************************)
\* case <-stopCh: return (and the deferred wg.Done())
PrinterStop ==
    /\ ppc = "select"
    /\ stopCh
    /\ ppc' = "done"
    /\ wg' = wg - 1
    /\ UNCHANGED <<inputVars, workerVars, stopCh, nonceCh, progressCh, nonce,
                   count, current, mined, printed, mpc, loopVars, histVars>>

\* as PrinterCurrent, keeping the latest sample instead of the largest
PrinterCurrentLatest(m, cur) == m

\* if mined > current { current = mined }
PrinterCurrent(m, cur) == IF m > cur THEN m ELSE cur

\* case mined := <-progressCh
PrinterProgress ==
    /\ ppc = "select"
    /\ progressCh # <<>>
    /\ progressCh' = Tail(progressCh)
    /\ mined' = Head(progressCh)
    /\ consumed' = IF Head(progressCh) >= consumed THEN Head(progressCh) ELSE consumed
    /\ current' = PrinterCurrent(Head(progressCh), current)
    /\ printed' = IF Head(progressCh) > current THEN current' ELSE printed
    /\ UNCHANGED <<inputVars, workerVars, stopCh, nonceCh, wg, nonce, ppc,
                   count, mpc, loopVars, sent, afterStop, verdict>>

\* case <-ticker.C
PrinterTick ==
    /\ ppc = "select"
    /\ count < MaxTicks
    /\ count' = count + 1
    /\ printed' = current
    /\ UNCHANGED <<inputVars, workerVars, genVars, ppc, current, mined, mpc,
                   loopVars, histVars>>

(***************************************************************************)
(* nonceGen: the coordinator, lines 205-222.                               *)
(***************************************************************************)
\* as GenRecv, taking the newest result of the channel instead of the oldest
GenRecvNewest ==
    /\ mpc = "recv"
    /\ nonceCh # <<>>
    /\ nonce' = nonceCh[Len(nonceCh)]
    /\ nonceCh' = SubSeq(nonceCh, 1, Len(nonceCh) - 1)
    /\ mpc' = "close"
    /\ UNCHANGED <<inputVars, workerVars, stopCh, progressCh, wg, printerVars,
                   loopVars, histVars>>

\* nonce := <-nonceCh
GenRecv ==
    /\ mpc = "recv"
    /\ nonceCh # <<>>
    /\ nonce' = Head(nonceCh)
    /\ nonceCh' = Tail(nonceCh)
    /\ mpc' = "close"
    /\ UNCHANGED <<inputVars, workerVars, stopCh, progressCh, wg, printerVars,
                   loopVars, histVars>>

\* close(stopCh)
GenClose ==
    /\ mpc = "close"
    /\ stopCh' = TRUE
    /\ mpc' = "wait"
    /\ UNCHANGED <<inputVars, workerVars, nonceCh, progressCh, wg, nonce,
                   printerVars, loopVars, histVars>>

\* wg.Wait()
GenWait ==
    /\ mpc = "wait"
    /\ wg = 0
    /\ mpc' = "verify"
    /\ UNCHANGED <<inputVars, workerVars, genVars, printerVars, loopVars, histVars>>

\* as GenVerify, with the verdict only logged, as nonceLoop does
GenVerifyLogOnly ==
    /\ mpc = "verify"
    /\ \E valid \in BOOLEAN :
          /\ verdict' = IF valid THEN "valid" ELSE "invalid"
          /\ mpc' = "returned"
    /\ UNCHANGED <<inputVars, workerVars, genVars, printerVars, loopVars, sent,
                   consumed, afterStop>>

\* kms.IsIDPubNonceValid, an oracle outside this package: either verdict;
\* Fatal on a rejection, else print and return &nonce
GenVerify ==
    /\ mpc = "verify"
    /\ \E valid \in BOOLEAN :
          /\ verdict' = IF valid THEN "valid" ELSE "invalid"
          /\ mpc' = IF valid THEN "returned" ELSE "fatal"
    /\ UNCHANGED <<inputVars, workerVars, genVars, printerVars, loopVars, sent,
                   consumed, afterStop>>

InitGen ==
    /\ difficulty \in 0..HashBits
    /\ publicKeyBytes \in PublicKeys
    /\ \E n \in 1..MaxCpu : InitState(FALSE, n)

NextGen ==
    \/ \E i \in Workers(cpuCount) : GenWorkerStart(i)
    \/ \E i \in Workers(cpuCount) : GenWorkerStop(i)
    \/ \E i \in Workers(cpuCount) : GenWorkerHash(i)
    \/ \E i \in Workers(cpuCount) : GenWorkerProgress(i)
    \/ \E i \in Workers(cpuCount) : GenWorkerResult(i)
    \/ PrinterStop
    \/ PrinterProgress
    \/ PrinterTick
    \/ GenRecv
    \/ GenClose
    \/ GenWait
    \/ GenVerify

SpecGen == InitGen /\ [][NextGen]_vars

(***************************************************************************)
(* nonceLoop: the worker goroutines, lines 91-103.  The search itself is   *)
(* ComputeBlockNonce of pow/cpuminer on a miner built over stopChs[i]: on  *)
(* cancellation it still sends its bestNonce (the zero NonceInfo when it   *)
(* found nothing) on its result channel before it returns.                 *)
(***************************************************************************)
\* line 99: the start nonce
LoopWorkerStart(i) ==
    /\ loop
    /\ wpc[i] = "start"
    /\ \E r \in RandUint32 :
          /\ start' = [start EXCEPT ![i] = LoopStart(i, cpuCount, r)]
          /\ j' = [j EXCEPT ![i] = LoopStart(i, cpuCount, r)]
    /\ wpc' = [wpc EXCEPT ![i] = "select"]
    /\ UNCHANGED <<inputVars, incs, currentHash, currentDifficulty, genVars,
                   printerVars, mpc, loopVars, histVars>>

\* ComputeBlockNonce: the quit case, taken once stopChs[i] is closed
LoopWorkerQuit(i) ==
    /\ wpc[i] = "select"
    /\ stopChs[i]
    /\ wpc' = [wpc EXCEPT ![i] = "send"]
    /\ UNCHANGED <<inputVars, start, j, incs, currentHash, currentDifficulty,
                   genVars, printerVars, mpc, loopVars, histVars>>

\* ComputeBlockNonce: the default case: hash the nonce, keep it when it
\* reaches the target, else move to the next nonce
LoopWorkerHash(i) ==
    /\ wpc[i] = "select"
    /\ ~stopChs[i]
    /\ incs[i] <= MaxInc
    /\ currentHash' = [currentHash EXCEPT ![i] = HashBlock(publicKeyBytes, j[i])]
    /\ currentDifficulty' =
          [currentDifficulty EXCEPT ![i] = Difficulty(HashBlock(publicKeyBytes, j[i]))]
    /\ IF Difficulty(HashBlock(publicKeyBytes, j[i])) >= difficulty
         THEN /\ bestNonce' = [bestNonce EXCEPT ![i] =
                     NonceInfo(j[i], Difficulty(HashBlock(publicKeyBytes, j[i])),
                               HashBlock(publicKeyBytes, j[i]))]
              /\ wpc' = [wpc EXCEPT ![i] = "send"]
              /\ UNCHANGED <<j, incs>>
         ELSE /\ j' = [j EXCEPT ![i] = Inc(j[i])]
              /\ incs' = [incs EXCEPT ![i] = @ + 1]
              /\ UNCHANGED <<wpc, bestNonce>>
    /\ UNCHANGED <<inputVars, start, genVars, printerVars, mpc, stopChs, ci,
                   max, collected, histVars>>

\* lines 101-103: ComputeBlockNonce returns once its send was received, and
\* the goroutine ends; nothing waits for it (the TODO of line 102)
LoopWorkerExit(i) ==
    /\ wpc[i] = "exit"
    /\ wpc' = [wpc EXCEPT ![i] = "done"]
    /\ UNCHANGED <<inputVars, start, j, incs, currentHash, currentDifficulty,
                   genVars, printerVars, mpc, loopVars, histVars>>

(***************************************************************************)
(* nonceLoop: the coordinator, lines 106-125.                              *)
(***************************************************************************)
\* sig := <-utils.WaitForExit(): the interrupt may come at any time
LoopSignal ==
    /\ mpc = "signal"
    /\ mpc' = "closing"
    /\ ci' = 0
    /\ UNCHANGED <<inputVars, workerVars, genVars, printerVars, stopChs,
                   bestNonce, max, collected, histVars>>

\* as LoopClose, closing stopChs[0] on every round of the loop
LoopCloseFirst ==
    /\ mpc = "closing"
    /\ stopChs' = [stopChs EXCEPT ![0] = TRUE]
    /\ IF ci + 1 < cpuCount
         THEN ci' = ci + 1 /\ mpc' = mpc
         ELSE ci' = 0 /\ mpc' = "collect"
    /\ UNCHANGED <<inputVars, workerVars, genVars, printerVars, bestNonce,
                   max, collected, histVars>>

\* lines 108-110: close(stopChs[i]) for i = 0 .. cpuCount-1
LoopClose ==
    /\ mpc = "closing"
    /\ stopChs' = [stopChs EXCEPT ![ci] = TRUE]
    /\ IF ci + 1 < cpuCount
         THEN ci' = ci + 1 /\ mpc' = mpc
         ELSE ci' = 0 /\ mpc' = "collect"
    /\ UNCHANGED <<inputVars, workerVars, genVars, printerVars, bestNonce,
                   max, collected, histVars>>

\* lines 115-117: if max.Difficulty < newNonce.Difficulty { max = newNonce }
LoopMax(m, newNonce) == IF m.Difficulty < newNonce.Difficulty THEN newNonce ELSE m

\* lines 113-118: newNonce := <-nonceChs[i], a rendezvous with worker i's
\* send on its unbuffered channel, and the update of max
LoopCollect ==
    /\ mpc = "collect"
    /\ wpc[ci] = "send"
    /\ wpc' = [wpc EXCEPT ![ci] = "exit"]
    /\ max' = LoopMax(max, bestNonce[ci])
    /\ collected' = Append(collected, [from |-> ci, info |-> bestNonce[ci]])
    /\ IF ci + 1 < cpuCount
         THEN ci' = ci + 1 /\ mpc' = mpc
         ELSE ci' = 0 /\ mpc' = "verify"
    /\ UNCHANGED <<inputVars, start, j, incs, currentHash, currentDifficulty,
                   genVars, printerVars, stopChs, bestNonce, histVars>>

\* lines 120-125: the verdict is logged, max is printed
LoopVerify ==
    /\ mpc = "verify"
    /\ \E valid \in BOOLEAN : verdict' = IF valid THEN "valid" ELSE "invalid"
    /\ mpc' = "returned"
    /\ UNCHANGED <<inputVars, workerVars, genVars, printerVars, loopVars, sent,
                   consumed, afterStop>>

InitLoop ==
    /\ difficulty \in 0..HashBits
    /\ publicKeyBytes \in PublicKeys
    /\ \E n \in 1..MaxCpu : InitState(TRUE, n)

NextLoop ==
    \/ \E i \in Workers(cpuCount) : LoopWorkerStart(i)
    \/ \E i \in Workers(cpuCount) : LoopWorkerQuit(i)
    \/ \E i \in Workers(cpuCount) : LoopWorkerHash(i)
    \/ \E i \in Workers(cpuCount) : LoopWorkerExit(i)
    \/ LoopSignal
    \/ LoopClose
    \/ LoopCollect
    \/ LoopVerify

SpecLoop == InitLoop /\ [][NextLoop]_vars

(***************************************************************************)
(* The scheduling: every goroutine that can run eventually does.  The      *)
(* ticker and the interrupt are left to the environment.                   *)
(***************************************************************************)
FairGen ==
    /\ \A i \in Workers(MaxCpu) :
          WF_vars(/\ i \in Workers(cpuCount)
                  /\ \/ GenWorkerStart(i) \/ GenWorkerStop(i) \/ GenWorkerHash(i)
                     \/ GenWorkerProgress(i) \/ GenWorkerResult(i))
    /\ WF_vars(PrinterStop \/ PrinterProgress)
    /\ WF_vars(GenRecv \/ GenClose \/ GenWait \/ GenVerify)

FairSpecGen == SpecGen /\ FairGen

FairLoop ==
    /\ \A i \in Workers(MaxCpu) :
          WF_vars(/\ i \in Workers(cpuCount)
                  /\ \/ LoopWorkerStart(i) \/ LoopWorkerQuit(i)
                     \/ LoopWorkerHash(i) \/ LoopWorkerExit(i))
    /\ WF_vars(LoopClose \/ LoopCollect \/ LoopVerify)

FairSpecLoop == SpecLoop /\ FairLoop

(***************************************************************************)
(* The partition alone: runIDMiner picks the mode, every worker computes   *)
(* its start nonce.                                                        *)
(***************************************************************************)
InitPart ==
    /\ difficulty = 0
    /\ publicKeyBytes = 0
    /\ \E isLoop \in BOOLEAN : \E n \in 1..MaxCpuPart : InitState(isLoop, n)

NextPart ==
    \/ \E i \in Workers(cpuCount) : GenWorkerStart(i)
    \/ \E i \in Workers(cpuCount) : LoopWorkerStart(i)

SpecPart == InitPart /\ [][NextPart]_vars

(***************************************************************************)
(* The set-up of both coordinators, from the CPU count the runtime reports *)
(* to the spawned workers.  An integer division by zero panics.            *)
(***************************************************************************)
\* lines 131-139: cpuCount := runtime.NumCPU(); step := 256 / cpuCount
GenSetup ==
    /\ ~loop
    /\ mpc = "setup"
    /\ mpc' = IF cpuCount = 0 THEN "panic" ELSE "recv"
    /\ UNCHANGED <<inputVars, workerVars, genVars, printerVars, loopVars, histVars>>

\* lines 80-86: cpuCount := runtime.NumCPU();
\* step := math.MaxUint64 / uint64(cpuCount)
LoopSetup ==
    /\ loop
    /\ mpc = "setup"
    /\ mpc' = IF cpuCount = 0 THEN "panic" ELSE "signal"
    /\ UNCHANGED <<inputVars, workerVars, genVars, printerVars, loopVars, histVars>>

InitSetup ==
    /\ difficulty = 0
    /\ publicKeyBytes = 0
    /\ mpc = "setup"
    /\ \E isLoop \in BOOLEAN : \E n \in 0..MaxCpuPart : InitRest(isLoop, n)

NextSetup ==
    \/ GenSetup
    \/ LoopSetup
    \/ \E i \in Workers(cpuCount) : mpc = "recv" /\ GenWorkerStart(i)
    \/ \E i \in Workers(cpuCount) : mpc = "signal" /\ LoopWorkerStart(i)

SpecSetup == InitSetup /\ [][NextSetup]_vars

(***************************************************************************)
(* The loop `for j := start; ; j.Inc()` of line 159 alone, from start      *)
(* nonces at and next to the limbs' boundaries.                            *)
(***************************************************************************)
\* the limbs the start nonces are made of: 0, 2^16 - 1, 2^64 - 2, 2^64 - 1
BoundaryLimbs ==
    { Zero64, <<Base - 1, 0, 0, 0>>,
      <<Base - 2, Base - 1, Base - 1, Base - 1>>, MaxUint64 }

\* j := start
IncStart ==
    /\ mpc = "inc"
    /\ wpc[0] = "start"
    /\ \E a, b, c, d \in BoundaryLimbs :
          /\ start' = [start EXCEPT ![0] = Uint256(a, b, c, d)]
          /\ j' = [j EXCEPT ![0] = Uint256(a, b, c, d)]
    /\ wpc' = [wpc EXCEPT ![0] = "select"]
    /\ UNCHANGED <<inputVars, incs, currentHash, currentDifficulty, genVars,
                   printerVars, mpc, loopVars, histVars>>

\* j.Inc()
IncStep ==
    /\ mpc = "inc"
    /\ wpc[0] = "select"
    /\ incs[0] <= MaxInc
    /\ j' = [j EXCEPT ![0] = Inc(j[0])]
    /\ incs' = [incs EXCEPT ![0] = @ + 1]
    /\ UNCHANGED <<inputVars, wpc, start, currentHash, currentDifficulty,
                   genVars, printerVars, mpc, loopVars, histVars>>

InitInc ==
    /\ difficulty = 0
    /\ publicKeyBytes = 0
    /\ mpc = "inc"
    /\ InitRest(FALSE, 1)

NextInc ==
    \/ IncStart
    \/ IncStep

SpecInc == InitInc /\ [][NextInc]_vars

\* the workers that have computed their start nonce
Started == {i \in DOMAIN wpc : wpc[i] # "start"}

(***************************************************************************)
(* The bit-sliced start nonce alone: for every worker count up to the      *)
(* width of the nonce, any one worker of nonceGen is followed while it     *)
(* computes its start nonce.                                               *)
(***************************************************************************)
InitSlice ==
    /\ difficulty = 0
    /\ publicKeyBytes = 0
    /\ mpc = "recv"
    /\ \E n \in 1..NonceBits : \E i \in Workers(n) : InitOver(FALSE, n, {i})

NextSlice ==
    \E i \in DOMAIN wpc : GenWorkerStart(i)

SpecSlice == InitSlice /\ [][NextSlice]_vars

(***************************************************************************)
(* Claims.                                                                 *)
(***************************************************************************)

\* C1: in one-shot mode, once the coordinator has closed stopCh its join
\* wg.Wait() eventually returns, whatever the fill level of progressCh.
C1_JoinReturns == stopCh ~> (mpc \in {"verify", "returned", "fatal"})

\* C2: a one-shot worker never blocks on reporting a progress sample: in
\* every reachable state a worker that is about to send a sample can do so.
C2_ProgressNeverBlocks ==
    \A i \in Workers(cpuCount) : wpc[i] = "progress" => ProgressSendReady

\* C3: in continuous mode, after the interrupt the coordinator closes every
\* stopChs[i], then receives exactly one result from each worker in index
\* order, and the collect loop always reaches the aggregation step.
C3_OnePerWorker ==
    /\ Len(collected) = cpuCount
    /\ \A k \in 1..cpuCount : collected[k].from = k - 1
    /\ \A i \in Workers(cpuCount) : stopChs[i] /\ wpc[i] \in {"exit", "done"}

C3_CollectCompletes ==
    /\ [](mpc \in {"verify", "returned"} => C3_OnePerWorker)
    /\ (mpc = "closing") ~> (mpc = "returned")

\* C3's case: the collect loop is over, it received the placeholder of a
\* worker cancelled before it found a nonce and the nonce another had found
C3_Witness ==
    /\ mpc = "returned"
    /\ \E k \in 1..Len(collected) : collected[k].info = ZeroNonceInfo
    /\ \E k \in 1..Len(collected) :
          /\ collected[k].info # ZeroNonceInfo
          /\ collected[k].info.Difficulty >= difficulty

\* the largest difficulty among the collected results
MaxDifficulty(rs) ==
    CHOOSE d \in {rs[k].info.Difficulty : k \in 1..Len(rs)} :
        \A k \in 1..Len(rs) : rs[k].info.Difficulty <= d

\* the first position of rs that holds a result of the largest difficulty
FirstMax(rs) ==
    CHOOSE k \in 1..Len(rs) :
        /\ rs[k].info.Difficulty = MaxDifficulty(rs)
        /\ \A m \in 1..(k - 1) : rs[m].info.Difficulty < MaxDifficulty(rs)

\* C4: in continuous mode the selected result is the collected result of
\* the largest difficulty, the one of the lowest worker index on a tie.
C4_MaxFirstWins ==
    mpc \in {"verify", "returned"} =>
        /\ max.Difficulty = MaxDifficulty(collected)
        /\ max = collected[FirstMax(collected)].info

\* C5: in one-shot mode the result the coordinator uses is the first one
\* enqueued on nonceCh; a result enqueued later never replaces it.
C5_FirstResultWins == mpc # "recv" => nonce = sent[1].info

\* C5's case: two workers enqueued different results, the coordinator has one
C5_Witness ==
    /\ mpc # "recv"
    /\ Len(sent) >= 2
    /\ sent[2].info # sent[1].info

\* n after k increments
RECURSIVE IncN(_, _)
IncN(n, k) == IF k = 0 THEN n ELSE IncN(Inc(n), k - 1)

\* C6: every result a one-shot worker emits is self-consistent: the digest
\* is the hash of its nonce, the difficulty that of the digest and at least
\* the target, and the nonce the worker's own start plus its increments.
C6_ResultConsistent ==
    \A k \in 1..Len(sent) :
        /\ sent[k].info.Hash = HashBlock(publicKeyBytes, sent[k].info.Nonce)
        /\ sent[k].info.Difficulty = Difficulty(sent[k].info.Hash)
        /\ sent[k].info.Difficulty >= difficulty
        /\ sent[k].info.Nonce = IncN(start[sent[k].from], incs[sent[k].from])

\* C6's case: a worker emitted a result after it had incremented its nonce
C6_Witness ==
    \E k \in 1..Len(sent) : sent[k].from # 0 /\ incs[sent[k].from] >= 1

\* C7: the start nonces of the bit-sliced partition are pairwise distinct,
\* for every worker count and every jitter.
C7_GenStartsDistinct ==
    ~loop => \A i, k \in Started : i # k => start[i] # start[k]

\* C8: the start values step*i + offset of the linear partition do not
\* wrap around in uint64 and are strictly increasing in the worker index.
C8_LoopStartsIncreasing ==
    loop =>
        /\ \A i \in Started :
              /\ ~MulWraps64(LoopStep(cpuCount), i)
              /\ ~Less64(start[i].D, Mul64(LoopStep(cpuCount), i))
        /\ \A i, k \in Started : i < k => Less64(start[i].D, start[k].D)

\* C8's case: three or more workers, worker 0 drew the largest offset and
\* worker 1 the smallest
C8_Witness ==
    /\ loop
    /\ cpuCount >= 3
    /\ Started = Workers(cpuCount)
    /\ start[0].D = <<Base - 1, Base - 1, 0, 0>>
    /\ start[1].D = LoopStep(cpuCount)

\* C9: the difficulty the progress printer displays never decreases: its
\* current is the largest of 0 and the samples it has consumed.
C9_DisplayedMonotone ==
    /\ [](current = consumed /\ printed <= current)
    /\ [][current' >= current /\ printed' >= printed]_vars

\* C9's case: the printer consumed a sample below its current
C9_Witness == mined < current /\ printed = current

\* C10: after close(stopCh) a worker runs at most one more iteration: it
\* never hashes again (a poll after the close exits), and sends at most
\* one more progress sample and at most one result.
C10_OneMoreIteration ==
    \A i \in Workers(cpuCount) :
        /\ afterStop[i].hashes = 0
        /\ afterStop[i].samples <= 1
        /\ afterStop[i].results <= 1

\* C10's case: a worker was in the middle of an iteration at the close, sent
\* its sample after it, missed the target and left at its next poll
C10_Witness ==
    /\ stopCh
    /\ \E i \in Workers(cpuCount) :
          /\ afterStop[i].samples = 1
          /\ wpc[i] = "done"
          /\ \A k \in 1..Len(sent) : sent[k].from # i

\* the workers that have not incremented their nonce
Unincremented == {i \in Workers(cpuCount) : wpc[i] # "start" /\ incs[i] = 0}

\* C11: with target difficulty 0 nonceGen always terminates, and the result
\* it received is the unincremented start nonce of one of the workers.
C11_ZeroTargetTerminates ==
    (difficulty = 0) =>
        /\ <>(mpc \in {"returned", "fatal"})
        /\ [](mpc # "recv" => \E i \in Unincremented : nonce.Nonce = start[i])

\* C12: nonceGen returns a result only when the oracle accepted it, a
\* rejection ends in the fatal state, and the oracle is consulted only after
\* every worker and the printer have exited.
C12_FatalOnRejection ==
    ~loop =>
        /\ (mpc = "returned" => verdict = "valid")
        /\ (verdict = "invalid" => mpc = "fatal")
        /\ (verdict # "none" =>
              /\ wg = 0
              /\ ppc = "done"
              /\ \A i \in Workers(cpuCount) : wpc[i] = "done")

C12_Witness == ~loop /\ mpc = "fatal" /\ verdict = "invalid" /\ cpuCount = MaxCpu

\* C13: in both modes, once the coordinator has returned every worker
\* goroutine it spawned has exited.
C13_NoWorkerOutlives ==
    (mpc = "returned") => \A i \in Workers(cpuCount) : wpc[i] = "done"

Flat(n) == n.D \o n.C \o n.B \o n.A

\* the digits ds plus the carry c, the carry out of the last digit dropped
RECURSIVE AddCarry(_, _)
AddCarry(ds, c) ==
    IF ds = <<>> THEN <<>>
    ELSE <<(Head(ds) + c) % Base>> \o AddCarry(Tail(ds), (Head(ds) + c) \div Base)

\* C15: Inc adds exactly 1 modulo 2^256: after k increments the nonce is
\* start + k modulo 2^256, the carry running through every limb at its
\* maximum, and the all-ones value becoming the all-zero value.
C15_IncAddsOne ==
    (mpc = "inc" /\ wpc[0] = "select") =>
        Flat(j[0]) = AddCarry(Flat(start[0]), incs[0])

C15_Witness ==
    /\ mpc = "inc"
    /\ start[0] = Uint256(MaxUint64, MaxUint64, MaxUint64, MaxUint64)
    /\ incs[0] = 1
    /\ j[0] = ZeroUint256

\* a carry out of limb D that stops in limb C
C15_WitnessCarry ==
    /\ mpc = "inc"
    /\ start[0] = Uint256(Zero64, U64(Base - 1), Zero64, MaxUint64)
    /\ incs[0] = 1
    /\ j[0] = Uint256(Zero64, U64(Base - 1), U64(1), Zero64)

\* C16: each one-shot worker enqueues at most one result, so the results ever
\* enqueued on nonceCh never exceed its capacity cpuCount, and a worker about
\* to deliver its result can always do so.
C16_ResultNeverBlocks ==
    ~loop =>
        /\ Len(sent) <= cpuCount
        /\ \A k, l \in 1..Len(sent) : sent[k].from = sent[l].from => k = l
        /\ \A i \in Workers(cpuCount) : wpc[i] = "result" => NonceSendReady

\* C16's case: every worker delivered a result, one of them after
\* cancellation, and the coordinator read only the first
C16_Witness ==
    /\ cpuCount >= 2
    /\ Len(sent) = cpuCount
    /\ Len(nonceCh) = cpuCount - 1
    /\ mpc = "returned"
    /\ \E i \in Workers(cpuCount) : afterStop[i].results = 1

\* C17: the result nonceLoop verifies and prints is one of the results it
\* collected from the workers, whatever their difficulties.
C17_MaxIsCollected ==
    (loop /\ mpc \in {"verify", "returned"}) =>
        \E k \in 1..Len(collected) : max = collected[k].info

\* the limb of nonce n at position p, in the order A, B, C, D
LimbAt(n, p) == IF p = 0 THEN n.A ELSE IF p = 1 THEN n.B ELSE IF p = 2 THEN n.C ELSE n.D

\* C18: in the bit-sliced partition every worker's start bit is below 256,
\* so exactly one limb of its start nonce is assigned, the one at position
\* startBit div 64, and its value 2^shift + jitter does not overflow 64 bits.
C18_OneLimbAssigned ==
    ~loop =>
        \A i \in Started :
            /\ GenStartBit(i, cpuCount) < NonceBits
            /\ GenPosition(i, cpuCount) \in 0..3
            /\ GenShift(i, cpuCount) \in 0..63
            /\ \A p \in 0..3 :
                  (LimbAt(start[i], p) # Zero64) <=> (p = GenPosition(i, cpuCount))
            /\ ~Less64(LimbAt(start[i], GenPosition(i, cpuCount)),
                       Shl1(GenShift(i, cpuCount)))

\* C18's case: 12 workers, worker 3 starts at bit 63 with the largest jitter:
\* limb A is 2^63 + 2^32 - 1
C18_Witness ==
    /\ ~loop
    /\ cpuCount = 12
    /\ 3 \in Started
    /\ start[3].A = <<Base - 1, Base - 1, 0, 2^15>>

====
